---- MODULE Spec2Model ----
(***************************************************************************)
(* Hybrid Tag firmware (src/src/main.c): key store, provisioning GATT      *)
(* channel, address derivation, advertisement payloads, protocol switcher  *)
(* and status LED, as a state machine over the file's static variables and *)
(* the state of the collaborators the file drives (settings storage, the   *)
(* controller address, the advertiser, the reboot work item).              *)
(***************************************************************************)
EXTENDS Integers, Sequences, FiniteSets, TLC

\* ------------------------------------------------------------ constants

APPLE_KEY_SIZE == 28
GOOGLE_KEY_SIZE == 20
APPLE_FINDMY_PAYLOAD_SIZE == 29
GOOGLE_FMDN_PAYLOAD_SIZE == 23
\* the chunk length tested by write_provision_key (len != 14)
CHUNK_SIZE == 14
\* write_provision_key commits when provision_key_chunks reaches 2
CHUNKS_PER_KEY == 2
\* K_SECONDS(1), the delay of key_update_reboot_work, counted in ticks of half a second
REBOOT_DELAY_TICKS == 2
\* led_blink_handler: blink_state = (blink_state + 1) % 10
BLINK_PHASES == 10

\* number of BLE centrals that may be connected at once (CONFIG_BT_MAX_CONN)
NumConns == 1
Conns == 1..NumConns
\* number of centrals connected at once where the claim is about several of them
NumCentrals == 2
Centrals == 1..NumCentrals

PROTOCOL_APPLE_FINDMY == "PROTOCOL_APPLE_FINDMY"
PROTOCOL_GOOGLE_FMDN == "PROTOCOL_GOOGLE_FMDN"

\* provision_auth_code = {'a','b','c','d','e','f','g','h'}
provision_auth_code == <<97, 98, 99, 100, 101, 102, 103, 104>>

Zeros(n) == [i \in 1..n |-> 0]

\* keys.h: apple_keys[0] and google_key, the compiled defaults
apple_keys_0 == [i \in 1..APPLE_KEY_SIZE |-> 160 + i]
google_key == [i \in 1..GOOGLE_KEY_SIZE |-> 96 + i]

\* ------------------------------------------------------------ inputs

\* 14-byte chunks a client writes: 14 zero bytes, and 0x01..0x0E
ChunkZero == Zeros(CHUNK_SIZE)
ChunkCount == [i \in 1..CHUNK_SIZE |-> i]
\* buffers written to the key characteristic: two chunks, one byte short, one long
KeyWriteBufs ==
    { ChunkZero, ChunkCount,
      SubSeq(ChunkCount, 1, CHUNK_SIZE - 1),
      ChunkCount \o <<15>> }

\* buffers written to the auth characteristic: the token, a wrong token of the
\* right length, the token cut by one byte, the token with one byte appended
AuthWriteBufs ==
    { provision_auth_code,
      [provision_auth_code EXCEPT ![8] = 120],
      SubSeq(provision_auth_code, 1, 7),
      provision_auth_code \o <<0>> }

\* values found under keys/apple and keys/google at first boot: a well-formed
\* entry and one that is a byte short
StoredAppleKey == [i \in 1..APPLE_KEY_SIZE |-> 200 - i]
StoredGoogleKey == [i \in 1..GOOGLE_KEY_SIZE |-> 2 * i]
InitAppleEntries ==
    { <<>>, <<StoredAppleKey>>, <<SubSeq(StoredAppleKey, 1, APPLE_KEY_SIZE - 1)>> }
InitGoogleEntries ==
    { <<>>, <<StoredGoogleKey>>, <<SubSeq(StoredGoogleKey, 1, GOOGLE_KEY_SIZE - 1)>> }

\* stored key pairs whose first bytes run over every value of a byte
ByteValues == 0..255
AppleKeyOf(b) == [i \in 1..APPLE_KEY_SIZE |-> (b + 37 * (i - 1)) % 256]
GoogleKeyOf(b) == [i \in 1..GOOGLE_KEY_SIZE |-> (255 - b + 11 * (i - 1)) % 256]

\* values a management client hands to the settings handler at run time
SettingsNames == {"apple", "google", "other"}
SettingsValues(name) ==
    IF name = "apple"
    THEN { StoredAppleKey, SubSeq(StoredAppleKey, 1, APPLE_KEY_SIZE - 1) }
    ELSE IF name = "google"
    THEN { StoredGoogleKey, SubSeq(StoredGoogleKey, 1, GOOGLE_KEY_SIZE - 1) }
    ELSE { <<1>> }

\* a value one byte longer than the slot it is written to
OversizedValue(name) ==
    IF name = "apple" THEN StoredAppleKey \o <<0>> ELSE StoredGoogleKey \o <<0>>

\* ------------------------------------------------------------ state

VARIABLES
    pc,                    \* position of main / bt_ready
    nvs,                   \* settings partition: keys/apple, keys/google
    runtime_apple_key,
    runtime_google_key,
    keys_loaded,
    settings_loading,
    keys_provisioned,
    current_protocol,
    provisioning_allowed,
    provision_key_buf,
    provision_key_chunks,
    apple_findmy_payload,
    google_fmdn_payload,
    blink_state,
    led,                   \* level last written to the LED pin
    led_timer_started,
    reboot_scheduled,      \* key_update_reboot_work is pending
    reboot_delay,          \* time left, in ticks, until the pending work runs
    ctlr_addr,             \* <<>> or <<addr>> last handed to bt_ctlr_set_public_addr
    adv,                   \* advertising set handed to the controller
    calls,                 \* calls made by the latest of main's set_mac_address,
                           \* bt_ready and protocol_switcher, in program order
    calls_ctx,             \* the execution context those calls were made in
    conns,                 \* open connections
    resp,                  \* return value of the latest write / settings handler
    loaded_slots,          \* entries the handler accepted in the settings_load in progress
    hp,                    \* history: <<token>> after a valid auth write, <<token, b>>
                           \* when the next write was a 14-byte key write b, else <<>>
    accepted,              \* history: the last chunks (two at most) staged since the
                           \* last valid auth or disconnect
    authed,                \* history: the open connections whose latest auth write
                           \* was the token
    key_saved              \* history: settings_save_one returned 0 in this boot cycle

keyvars == <<nvs, runtime_apple_key, runtime_google_key, keys_loaded, keys_provisioned>>
sessvars == <<provisioning_allowed, provision_key_buf, provision_key_chunks>>
advvars == <<apple_findmy_payload, google_fmdn_payload, ctlr_addr, adv, calls,
             calls_ctx, current_protocol>>
ledvars == <<blink_state, led, led_timer_started>>
histvars == <<hp, accepted, authed, key_saved>>
rebootvars == <<reboot_scheduled, reboot_delay>>
vars == <<pc, nvs, runtime_apple_key, runtime_google_key, keys_loaded, settings_loading,
          keys_provisioned, current_protocol, provisioning_allowed, provision_key_buf,
          provision_key_chunks, apple_findmy_payload, google_fmdn_payload, blink_state,
          led, led_timer_started, reboot_scheduled, ctlr_addr, adv, conns, resp,
          loaded_slots, hp, accepted, reboot_delay, calls, authed, key_saved,
          calls_ctx>>

\* execution contexts: the main thread, the thread that runs the bt_enable
\* callback, and the system clock interrupt, which runs k_timer expiry functions
CTX_NONE == "none"
CTX_MAIN == "main thread"
CTX_BT_INIT == "bt_enable callback"
CTX_TIMER_ISR == "timer interrupt"

NoResp == [op |-> "none", rc |-> "none"]
NoAdv == [kind |-> "none", data |-> <<>>]

\* The values of the statics after reset (zero-initialised unless given an initialiser)
\* and of the collaborators after a cold boot; the settings partition is kept.
cold_boot(store) ==
    [pc |-> "main",
     nvs |-> store,
     runtime_apple_key |-> Zeros(APPLE_KEY_SIZE),
     runtime_google_key |-> Zeros(GOOGLE_KEY_SIZE),
     keys_loaded |-> FALSE,
     settings_loading |-> FALSE,
     keys_provisioned |-> FALSE,
     current_protocol |-> PROTOCOL_APPLE_FINDMY,
     provisioning_allowed |-> FALSE,
     provision_key_buf |-> Zeros(APPLE_KEY_SIZE),
     provision_key_chunks |-> 0,
     apple_findmy_payload |-> Zeros(APPLE_FINDMY_PAYLOAD_SIZE),
     google_fmdn_payload |-> Zeros(GOOGLE_FMDN_PAYLOAD_SIZE),
     blink_state |-> 0,
     led |-> 0,
     led_timer_started |-> FALSE,
     reboot_scheduled |-> FALSE,
     reboot_delay |-> 0,
     ctlr_addr |-> <<>>,
     adv |-> NoAdv,
     calls |-> <<>>,
     calls_ctx |-> CTX_NONE,
     conns |-> {},
     resp |-> NoResp,
     loaded_slots |-> {},
     hp |-> <<>>,
     accepted |-> <<>>,
     authed |-> {},
     key_saved |-> FALSE]

\* power-on with one of the given settings partitions
PowerOn(stores) ==
    \E store \in stores :
        LET b == cold_boot(store)
        IN /\ pc = b.pc
           /\ nvs = b.nvs
           /\ runtime_apple_key = b.runtime_apple_key
           /\ runtime_google_key = b.runtime_google_key
           /\ keys_loaded = b.keys_loaded
           /\ settings_loading = b.settings_loading
           /\ keys_provisioned = b.keys_provisioned
           /\ current_protocol = b.current_protocol
           /\ provisioning_allowed = b.provisioning_allowed
           /\ provision_key_buf = b.provision_key_buf
           /\ provision_key_chunks = b.provision_key_chunks
           /\ apple_findmy_payload = b.apple_findmy_payload
           /\ google_fmdn_payload = b.google_fmdn_payload
           /\ blink_state = b.blink_state
           /\ led = b.led
           /\ led_timer_started = b.led_timer_started
           /\ reboot_scheduled = b.reboot_scheduled
           /\ ctlr_addr = b.ctlr_addr
           /\ adv = b.adv
           /\ conns = b.conns
           /\ resp = b.resp
           /\ loaded_slots = b.loaded_slots
           /\ hp = b.hp
           /\ accepted = b.accepted
           /\ reboot_delay = b.reboot_delay
           /\ calls = b.calls
           /\ calls_ctx = b.calls_ctx
           /\ authed = b.authed
           /\ key_saved = b.key_saved

\* every combination of an absent, a well-formed and a malformed entry per slot
Init ==
    PowerOn({[apple |-> a, google |-> g] :
                a \in InitAppleEntries, g \in InitGoogleEntries})

\* a factory-fresh partition, and one holding both keys
InitSwitch ==
    PowerOn({[apple |-> <<>>, google |-> <<>>],
             [apple |-> <<StoredAppleKey>>, google |-> <<StoredGoogleKey>>]})

\* a partition holding one of the key pairs AppleKeyOf(b), GoogleKeyOf(b)
InitKeys ==
    PowerOn({[apple |-> <<AppleKeyOf(b)>>, google |-> <<GoogleKeyOf(b)>>] :
                b \in ByteValues})

\* ------------------------------------------------------------ pure parts

\* prepare_apple_findmy_adv with the key copied from its first byte:
\* memcpy(&apple_findmy_payload[5], &runtime_apple_key[0], 22)
prepare_apple_findmy_adv_from_start(payload, key) ==
    [i \in 1..APPLE_FINDMY_PAYLOAD_SIZE |->
        IF i = 1 THEN 76
        ELSE IF i = 2 THEN 0
        ELSE IF i = 3 THEN 18
        ELSE IF i = 4 THEN 25
        ELSE IF i = 5 THEN 0
        ELSE IF i \in 6..27 THEN key[i - 5]
        ELSE IF i = 28 THEN (key[1] \div 64) % 4
        ELSE 0]

\* prepare_apple_findmy_adv: every byte of the buffer is assigned
prepare_apple_findmy_adv(payload, key) ==
    [i \in 1..APPLE_FINDMY_PAYLOAD_SIZE |->
        IF i = 1 THEN 76
        ELSE IF i = 2 THEN 0
        ELSE IF i = 3 THEN 18
        ELSE IF i = 4 THEN 25
        ELSE IF i = 5 THEN 0
        ELSE IF i \in 6..27 THEN key[i + 1]
        ELSE IF i = 28 THEN (key[1] \div 64) % 4
        ELSE IF i = 29 THEN 0
        ELSE payload[i]]

\* prepare_google_fmdn_adv with the frame type byte left as it was
prepare_google_fmdn_adv_no_type(payload, key) ==
    [i \in 1..GOOGLE_FMDN_PAYLOAD_SIZE |->
        IF i = 1 THEN 44
        ELSE IF i = 2 THEN 254
        ELSE IF i \in 4..23 THEN key[i - 3]
        ELSE payload[i]]

\* prepare_google_fmdn_adv
prepare_google_fmdn_adv(payload, key) ==
    [i \in 1..GOOGLE_FMDN_PAYLOAD_SIZE |->
        IF i = 1 THEN 44
        ELSE IF i = 2 THEN 254
        ELSE IF i = 3 THEN 0
        ELSE IF i \in 4..23 THEN key[i - 3]
        ELSE payload[i]]

\* derive_addr with addr[5] = key[0], the marker bits left as they are in the key
derive_addr_unmasked(protocol, akey, gkey) ==
    IF protocol = PROTOCOL_APPLE_FINDMY
    THEN <<akey[6], akey[5], akey[4], akey[3], akey[2], akey[1]>>
    ELSE <<gkey[6], gkey[5], gkey[4], gkey[3], gkey[2], gkey[1]>>

\* the address set_mac_address computes: addr[5] = key[0] | 0xC0 (Apple) or
\* key[0] & 0x3F (Google), addr[4..0] = key[1..5]
derive_addr(protocol, akey, gkey) ==
    IF protocol = PROTOCOL_APPLE_FINDMY
    THEN <<akey[6], akey[5], akey[4], akey[3], akey[2], (akey[1] % 64) + 192>>
    ELSE <<gkey[6], gkey[5], gkey[4], gkey[3], gkey[2], gkey[1] % 64>>

\* set_mac_address without the early return for an unprovisioned device
set_mac_address_unguarded(old, provisioned, protocol, akey, gkey) ==
    <<derive_addr(protocol, akey, gkey)>>

\* set_mac_address with the Apple branch taken for either protocol
set_mac_address_apple_only(old, provisioned, protocol, akey, gkey) ==
    IF ~provisioned THEN old
    ELSE <<derive_addr(PROTOCOL_APPLE_FINDMY, akey, gkey)>>

\* set_mac_address: the value of ctlr_addr after the call
set_mac_address(old, provisioned, protocol, akey, gkey) ==
    IF ~provisioned THEN old
    ELSE <<derive_addr(protocol, akey, gkey)>>

\* the calls set_mac_address makes to the controller
set_mac_address_calls(provisioned) ==
    IF ~provisioned THEN <<>> ELSE <<"bt_ctlr_set_public_addr">>

\* the calls start_advertising makes, in program order
start_advertising_calls(provisioned, protocol) ==
    <<"bt_le_adv_stop">>
    \o (IF ~provisioned THEN <<>>
        ELSE IF protocol = PROTOCOL_APPLE_FINDMY
        THEN <<"prepare_apple_findmy_adv">>
        ELSE <<"prepare_google_fmdn_adv">>)
    \o <<"bt_le_adv_start">>

\* start_advertising with the test of keys_provisioned left out
start_advertising_unguarded(provisioned, protocol, akey, gkey, apl, gpl, adv_ok) ==
    LET napl == IF protocol = PROTOCOL_APPLE_FINDMY
                THEN prepare_apple_findmy_adv(apl, akey) ELSE apl
        ngpl == IF protocol # PROTOCOL_APPLE_FINDMY
                THEN prepare_google_fmdn_adv(gpl, gkey) ELSE gpl
        set  == IF protocol = PROTOCOL_APPLE_FINDMY
                THEN [kind |-> "apple", data |-> napl]
                ELSE [kind |-> "google", data |-> ngpl]
    IN [apple_findmy_payload |-> napl,
        google_fmdn_payload |-> ngpl,
        adv |-> IF adv_ok THEN set ELSE NoAdv,
        err |-> ~adv_ok]

\* start_advertising: bt_le_adv_stop, then the set for the mode, then
\* bt_le_adv_start, which fails when adv_ok is FALSE
start_advertising(provisioned, protocol, akey, gkey, apl, gpl, adv_ok) ==
    LET napl == IF provisioned /\ protocol = PROTOCOL_APPLE_FINDMY
                THEN prepare_apple_findmy_adv(apl, akey) ELSE apl
        ngpl == IF provisioned /\ protocol # PROTOCOL_APPLE_FINDMY
                THEN prepare_google_fmdn_adv(gpl, gkey) ELSE gpl
        set  == IF ~provisioned THEN [kind |-> "provisioning", data |-> <<>>]
                ELSE IF protocol = PROTOCOL_APPLE_FINDMY
                THEN [kind |-> "apple", data |-> napl]
                ELSE [kind |-> "google", data |-> ngpl]
    IN [apple_findmy_payload |-> napl,
        google_fmdn_payload |-> ngpl,
        adv |-> IF adv_ok THEN set ELSE NoAdv,
        err |-> ~adv_ok]

\* reset_provisioning_state with provision_key_chunks = 0 left out
reset_provisioning_state_keeps_count ==
    /\ provisioning_allowed' = FALSE
    /\ UNCHANGED provision_key_chunks

\* reset_provisioning_state
reset_provisioning_state ==
    /\ provisioning_allowed' = FALSE
    /\ provision_key_chunks' = 0

\* schedule_key_update_reboot: k_work_reschedule(&key_update_reboot_work, 1 s)
\* restarts the delay of the pending work; work whose delay has already run out
\* is queued and runs regardless
schedule_key_update_reboot ==
    /\ reboot_scheduled' = TRUE
    /\ reboot_delay' = IF reboot_scheduled /\ reboot_delay = 0
                       THEN 0 ELSE REBOOT_DELAY_TICKS

\* ------------------------------------------------------------ boot

\* main up to load_keys: work item init, LED check and start-up flashes
main_init(led_ready) ==
    /\ pc = "main"
    /\ pc' = IF led_ready THEN "load_keys" ELSE "halted"
    /\ UNCHANGED <<nvs, runtime_apple_key, runtime_google_key, keys_loaded,
                   settings_loading, keys_provisioned, current_protocol, sessvars,
                   apple_findmy_payload, google_fmdn_payload, ledvars, rebootvars,
                   ctlr_addr, adv, calls, calls_ctx, conns, resp, loaded_slots, histvars>>

\* load_keys up to the call of settings_load
load_keys_begin ==
    /\ pc = "load_keys"
    /\ settings_loading' = TRUE
    /\ keys_provisioned' = FALSE
    /\ pc' = "settings_load"
    /\ UNCHANGED <<nvs, runtime_apple_key, runtime_google_key, keys_loaded,
                   current_protocol, sessvars, apple_findmy_payload, google_fmdn_payload,
                   ledvars, rebootvars, ctlr_addr, adv, calls, calls_ctx, conns, resp,
                   loaded_slots, histvars>>

\* key_len_ok with a value longer than the slot let through: len >= SIZE
key_len_ok_at_least(val, size) ==
    Len(val) >= size

\* keys_settings_set: len == APPLE_KEY_SIZE, len == GOOGLE_KEY_SIZE
key_len_ok(val, size) ==
    Len(val) = size

\* keys_settings_set(name, len, read_cb, cb_arg): val is the value read_cb yields,
\* read_ok whether read_cb succeeds, save_ok whether settings_save_one succeeds
keys_settings_set(name, val, read_ok, save_ok) ==
    IF name = "apple" THEN
        IF key_len_ok(val, APPLE_KEY_SIZE) /\ read_ok THEN
            /\ runtime_apple_key' = val
            /\ keys_loaded' = TRUE
            /\ UNCHANGED runtime_google_key
            /\ IF settings_loading THEN
                   /\ keys_provisioned' = TRUE
                   /\ resp' = [op |-> "settings", rc |-> "0"]
                   /\ UNCHANGED <<nvs, rebootvars>>
               ELSE IF ~save_ok THEN
                   /\ resp' = [op |-> "settings", rc |-> "save_rc"]
                   /\ UNCHANGED <<nvs, keys_provisioned, rebootvars>>
               ELSE
                   /\ nvs' = [nvs EXCEPT !.apple = <<val>>]
                   /\ keys_provisioned' = TRUE
                   /\ schedule_key_update_reboot
                   /\ resp' = [op |-> "settings", rc |-> "0"]
        ELSE
            /\ resp' = [op |-> "settings", rc |-> "EINVAL"]
            /\ UNCHANGED <<keyvars, rebootvars>>
    ELSE IF name = "google" THEN
        IF key_len_ok(val, GOOGLE_KEY_SIZE) /\ read_ok THEN
            /\ runtime_google_key' = val
            /\ UNCHANGED <<runtime_apple_key, keys_loaded>>
            /\ IF settings_loading THEN
                   /\ keys_provisioned' = TRUE
                   /\ resp' = [op |-> "settings", rc |-> "0"]
                   /\ UNCHANGED <<nvs, rebootvars>>
               ELSE IF ~save_ok THEN
                   /\ resp' = [op |-> "settings", rc |-> "save_rc"]
                   /\ UNCHANGED <<nvs, keys_provisioned, rebootvars>>
               ELSE
                   /\ nvs' = [nvs EXCEPT !.google = <<val>>]
                   /\ keys_provisioned' = TRUE
                   /\ schedule_key_update_reboot
                   /\ resp' = [op |-> "settings", rc |-> "0"]
        ELSE
            /\ resp' = [op |-> "settings", rc |-> "EINVAL"]
            /\ UNCHANGED <<keyvars, rebootvars>>
    ELSE
        /\ resp' = [op |-> "settings", rc |-> "ENOENT"]
        /\ UNCHANGED <<keyvars, rebootvars>>

\* settings_load hands one stored entry of the keys subtree to the handler
settings_load_entry(name, read_ok) ==
    /\ pc = "settings_load"
    /\ name \in {"apple", "google"} \ loaded_slots
    /\ nvs[name] # <<>>
    /\ keys_settings_set(name, nvs[name][1], read_ok, TRUE)
    /\ loaded_slots' = IF resp'.rc = "0" THEN loaded_slots \cup {name} ELSE loaded_slots
    /\ UNCHANGED <<pc, settings_loading, current_protocol, sessvars,
                   apple_findmy_payload, google_fmdn_payload, ledvars, ctlr_addr, adv, calls,
                   calls_ctx, conns, histvars>>

\* keys_missing with the test inverted: if (keys_loaded)
keys_missing_inverted(loaded) ==
    loaded

\* load_keys: if (!keys_loaded), the test that selects the compiled defaults
keys_missing(loaded) ==
    ~loaded

\* load_keys from the return of settings_load; err: settings_load reported a
\* failure, which load_keys only logs
load_keys_end(err) ==
    /\ pc = "settings_load"
    /\ settings_loading' = FALSE
    /\ loaded_slots' = {}
    /\ IF keys_missing(keys_loaded)
       THEN /\ runtime_apple_key' = apple_keys_0
            /\ runtime_google_key' = google_key
            /\ keys_loaded' = TRUE
       ELSE UNCHANGED <<runtime_apple_key, runtime_google_key, keys_loaded>>
    /\ pc' = "set_mac_address"
    /\ UNCHANGED <<nvs, keys_provisioned, current_protocol, sessvars,
                   apple_findmy_payload, google_fmdn_payload, ledvars, rebootvars,
                   ctlr_addr, adv, calls, calls_ctx, conns, resp, histvars>>

\* main: set_mac_address() before bt_enable
main_set_mac_address ==
    /\ pc = "set_mac_address"
    /\ ctlr_addr' = set_mac_address(ctlr_addr, keys_provisioned, current_protocol,
                                    runtime_apple_key, runtime_google_key)
    /\ calls' = set_mac_address_calls(keys_provisioned)
    /\ calls_ctx' = CTX_MAIN
    /\ pc' = "bt_enable"
    /\ UNCHANGED <<keyvars, settings_loading, current_protocol, sessvars,
                   apple_findmy_payload, google_fmdn_payload, ledvars, rebootvars,
                   adv, conns, resp, loaded_slots, histvars>>

\* main: bt_enable(bt_ready), then sleep forever; on error bt_ready is not called
main_bt_enable(err) ==
    /\ pc = "bt_enable"
    /\ pc' = IF err THEN "halted" ELSE "bt_ready"
    /\ UNCHANGED <<keyvars, settings_loading, sessvars, advvars, ledvars,
                   rebootvars, conns, resp, loaded_slots, histvars>>

\* bt_ready(err): both error paths loop forever toggling the LED
bt_ready(err, adv_ok) ==
    /\ pc = "bt_ready"
    /\ IF err THEN
           /\ pc' = "halted"
           /\ UNCHANGED <<apple_findmy_payload, google_fmdn_payload, adv, calls,
                          calls_ctx, led_timer_started>>
       ELSE
           LET r == start_advertising(keys_provisioned, current_protocol,
                                      runtime_apple_key, runtime_google_key,
                                      apple_findmy_payload, google_fmdn_payload, adv_ok)
           IN /\ apple_findmy_payload' = r.apple_findmy_payload
              /\ google_fmdn_payload' = r.google_fmdn_payload
              /\ adv' = r.adv
              /\ calls' = start_advertising_calls(keys_provisioned, current_protocol)
              /\ calls_ctx' = CTX_BT_INIT
              /\ pc' = IF r.err THEN "halted" ELSE "running"
              /\ led_timer_started' = ~r.err
    /\ UNCHANGED <<keyvars, settings_loading, current_protocol, sessvars, blink_state,
                   led, rebootvars, ctlr_addr, conns, resp, loaded_slots, histvars>>

\* ------------------------------------------------------------ connections

\* bt_connected(conn, err)
bt_connected(conn, err) ==
    /\ pc = "running"
    /\ conn \notin conns
    /\ conns' = IF err THEN conns ELSE conns \cup {conn}
    /\ UNCHANGED <<pc, keyvars, settings_loading, sessvars, advvars, ledvars,
                   rebootvars, resp, loaded_slots, histvars>>

\* bt_disconnected with the call of reset_provisioning_state left out
bt_disconnected_no_reset(conn) ==
    /\ pc = "running"
    /\ conn \in conns
    /\ conns' = conns \ {conn}
    /\ hp' = <<>>
    /\ accepted' = <<>>
    /\ authed' = authed \ {conn}
    /\ UNCHANGED key_saved
    /\ UNCHANGED <<pc, keyvars, settings_loading, sessvars, advvars, ledvars,
                   rebootvars, resp, loaded_slots>>

\* bt_disconnected(conn, reason)
bt_disconnected(conn) ==
    /\ pc = "running"
    /\ conn \in conns
    /\ conns' = conns \ {conn}
    /\ reset_provisioning_state
    /\ hp' = <<>>
    /\ accepted' = <<>>
    /\ authed' = authed \ {conn}
    /\ UNCHANGED key_saved
    /\ UNCHANGED <<pc, keyvars, settings_loading, provision_key_buf, advvars, ledvars,
                   rebootvars, resp, loaded_slots>>

\* ------------------------------------------------------------ provisioning

\* write_provision_auth: len != sizeof(provision_auth_code)
auth_len_invalid(buf) ==
    Len(buf) # Len(provision_auth_code)

\* write_provision_auth: memcmp(buf, provision_auth_code, 8) != 0
auth_mismatch(buf) ==
    buf # provision_auth_code

\* write_provision_auth with provision_key_chunks = 0 left out of the branch of
\* the valid token
write_provision_auth_keeps_count(conn, buf) ==
    /\ pc = "running"
    /\ conn \in conns
    /\ IF auth_len_invalid(buf) THEN
           /\ resp' = [op |-> "auth", rc |-> "ERR_INVALID_ATTRIBUTE_LEN"]
           /\ UNCHANGED <<provisioning_allowed, provision_key_chunks, accepted>>
       ELSE IF auth_mismatch(buf) THEN
           /\ reset_provisioning_state
           /\ resp' = [op |-> "auth", rc |-> "len"]
           /\ UNCHANGED accepted
       ELSE
           /\ provisioning_allowed' = TRUE
           /\ UNCHANGED provision_key_chunks
           /\ resp' = [op |-> "auth", rc |-> "len"]
           /\ accepted' = <<>>
    /\ hp' = IF buf = provision_auth_code THEN <<buf>> ELSE <<>>
    /\ authed' = IF buf = provision_auth_code THEN authed \cup {conn} ELSE authed \ {conn}
    /\ UNCHANGED key_saved
    /\ UNCHANGED <<pc, keyvars, settings_loading, provision_key_buf, advvars, ledvars,
                   rebootvars, conns, loaded_slots>>

\* write_provision_auth(conn, attr, buf, len, offset, flags)
write_provision_auth(conn, buf) ==
    /\ pc = "running"
    /\ conn \in conns
    /\ IF auth_len_invalid(buf) THEN
           /\ resp' = [op |-> "auth", rc |-> "ERR_INVALID_ATTRIBUTE_LEN"]
           /\ UNCHANGED <<provisioning_allowed, provision_key_chunks, accepted>>
       ELSE IF auth_mismatch(buf) THEN
           /\ reset_provisioning_state
           /\ resp' = [op |-> "auth", rc |-> "len"]
           /\ UNCHANGED accepted
       ELSE
           /\ provisioning_allowed' = TRUE
           /\ provision_key_chunks' = 0
           /\ resp' = [op |-> "auth", rc |-> "len"]
           /\ accepted' = <<>>
    /\ hp' = IF buf = provision_auth_code THEN <<buf>> ELSE <<>>
    /\ authed' = IF buf = provision_auth_code THEN authed \cup {conn} ELSE authed \ {conn}
    /\ UNCHANGED key_saved
    /\ UNCHANGED <<pc, keyvars, settings_loading, provision_key_buf, advvars, ledvars,
                   rebootvars, conns, loaded_slots>>

\* key_write_rejected with the chunk-count test dropped
key_write_rejected_no_count(allowed, buf, chunks) ==
    ~allowed \/ Len(buf) # CHUNK_SIZE

\* write_provision_key: !provisioning_allowed || len != 14 || provision_key_chunks >= 2
key_write_rejected(allowed, buf, chunks) ==
    ~allowed \/ Len(buf) # CHUNK_SIZE \/ chunks >= CHUNKS_PER_KEY

\* stage_chunk with the destination offset dropped: memcpy(provision_key_buf, buf, 14)
stage_chunk_at_start(staging, chunks, buf) ==
    [i \in 1..APPLE_KEY_SIZE |-> IF i \in 1..CHUNK_SIZE THEN buf[i] ELSE staging[i]]

\* the staging buffer after memcpy(&provision_key_buf[chunks * 14], buf, 14)
stage_chunk(staging, chunks, buf) ==
    [i \in 1..APPLE_KEY_SIZE |->
        IF i \in (chunks * CHUNK_SIZE + 1)..(chunks * CHUNK_SIZE + CHUNK_SIZE)
        THEN buf[i - chunks * CHUNK_SIZE]
        ELSE staging[i]]

\* commit_provisioned_key with the call of reset_provisioning_state left out
commit_provisioned_key_no_reset(save_ok) ==
    /\ runtime_apple_key' = provision_key_buf'
    /\ provision_key_chunks' = provision_key_chunks + 1
    /\ UNCHANGED <<runtime_google_key, provisioning_allowed>>
    /\ IF ~save_ok THEN
           /\ resp' = [op |-> "key", rc |-> "ERR_UNLIKELY"]
           /\ UNCHANGED <<nvs, keys_loaded, keys_provisioned, rebootvars>>
       ELSE
           /\ nvs' = [nvs EXCEPT !.apple = <<runtime_apple_key'>>]
           /\ keys_loaded' = TRUE
           /\ keys_provisioned' = TRUE
           /\ schedule_key_update_reboot
           /\ resp' = [op |-> "key", rc |-> "len"]

\* commit_provisioned_key with the reboot scheduled before the result of the save
\* is tested
commit_provisioned_key_reboots_anyway(save_ok) ==
    /\ runtime_apple_key' = provision_key_buf'
    /\ schedule_key_update_reboot
    /\ UNCHANGED runtime_google_key
    /\ IF ~save_ok THEN
           /\ provision_key_chunks' = provision_key_chunks + 1
           /\ resp' = [op |-> "key", rc |-> "ERR_UNLIKELY"]
           /\ UNCHANGED <<nvs, keys_loaded, keys_provisioned, provisioning_allowed>>
       ELSE
           /\ nvs' = [nvs EXCEPT !.apple = <<runtime_apple_key'>>]
           /\ keys_loaded' = TRUE
           /\ keys_provisioned' = TRUE
           /\ reset_provisioning_state
           /\ resp' = [op |-> "key", rc |-> "len"]

\* commit_provisioned_key with the flags set before the result of the save is tested
commit_provisioned_key_marks_first(save_ok) ==
    /\ runtime_apple_key' = provision_key_buf'
    /\ keys_loaded' = TRUE
    /\ keys_provisioned' = TRUE
    /\ IF ~save_ok THEN
           /\ provision_key_chunks' = provision_key_chunks + 1
           /\ resp' = [op |-> "key", rc |-> "ERR_UNLIKELY"]
           /\ UNCHANGED <<nvs, runtime_google_key, provisioning_allowed,
                          rebootvars>>
       ELSE
           /\ nvs' = [nvs EXCEPT !.apple = <<runtime_apple_key'>>]
           /\ reset_provisioning_state
           /\ schedule_key_update_reboot
           /\ resp' = [op |-> "key", rc |-> "len"]
           /\ UNCHANGED runtime_google_key

\* write_provision_key, the block run when provision_key_chunks == 2: copy the
\* staged key to runtime_apple_key, save it, and on success mark, reset, schedule
commit_provisioned_key(save_ok) ==
    /\ runtime_apple_key' = provision_key_buf'
    /\ IF ~save_ok THEN
           /\ provision_key_chunks' = provision_key_chunks + 1
           /\ resp' = [op |-> "key", rc |-> "ERR_UNLIKELY"]
           /\ UNCHANGED <<nvs, runtime_google_key, keys_loaded, keys_provisioned,
                          provisioning_allowed, rebootvars>>
       ELSE
           /\ nvs' = [nvs EXCEPT !.apple = <<runtime_apple_key'>>]
           /\ keys_loaded' = TRUE
           /\ keys_provisioned' = TRUE
           /\ reset_provisioning_state
           /\ schedule_key_update_reboot
           /\ resp' = [op |-> "key", rc |-> "len"]
           /\ UNCHANGED runtime_google_key

\* write_provision_key(conn, attr, buf, len, offset, flags); save_ok: whether
\* settings_save_one("keys/apple", ...) succeeds
write_provision_key(conn, buf, save_ok) ==
    /\ pc = "running"
    /\ conn \in conns
    /\ IF key_write_rejected(provisioning_allowed, buf, provision_key_chunks) THEN
           /\ resp' = [op |-> "key", rc |-> "ERR_INVALID_ATTRIBUTE_LEN"]
           /\ UNCHANGED <<keyvars, sessvars, rebootvars, accepted>>
       ELSE
           /\ provision_key_buf' = stage_chunk(provision_key_buf, provision_key_chunks, buf)
           /\ accepted' = IF Len(accepted) < CHUNKS_PER_KEY
                          THEN Append(accepted, buf) ELSE <<accepted[2], buf>>
           /\ IF provision_key_chunks + 1 = CHUNKS_PER_KEY THEN
                  commit_provisioned_key(save_ok)
              ELSE
                  /\ provision_key_chunks' = provision_key_chunks + 1
                  /\ resp' = [op |-> "key", rc |-> "len"]
                  /\ UNCHANGED <<keyvars, provisioning_allowed, rebootvars>>
    /\ hp' = IF Len(hp) = 1 /\ Len(buf) = CHUNK_SIZE THEN Append(hp, buf) ELSE <<>>
    /\ key_saved' = (\/ key_saved
                     \/ /\ ~key_write_rejected(provisioning_allowed, buf, provision_key_chunks)
                        /\ provision_key_chunks + 1 = CHUNKS_PER_KEY
                        /\ save_ok)
    /\ UNCHANGED authed
    /\ UNCHANGED <<pc, settings_loading, advvars, ledvars, conns, loaded_slots>>

\* a run-time settings write (MCUmgr) reaching the keys handler
settings_runtime_set(name, val, read_ok, save_ok) ==
    /\ pc = "running"
    /\ keys_settings_set(name, val, read_ok, save_ok)
    /\ key_saved' = (\/ key_saved
                     \/ /\ \/ name = "apple" /\ Len(val) = APPLE_KEY_SIZE
                           \/ name = "google" /\ Len(val) = GOOGLE_KEY_SIZE
                        /\ read_ok
                        /\ save_ok)
    /\ UNCHANGED <<pc, settings_loading, sessvars, advvars, ledvars, conns, loaded_slots,
                   hp, accepted, authed>>

\* key_update_reboot_handler with the call of sys_reboot left out
key_update_reboot_handler_no_reboot ==
    /\ reboot_scheduled
    /\ reboot_delay = 0
    /\ reboot_scheduled' = FALSE
    /\ UNCHANGED <<pc, keyvars, settings_loading, sessvars, advvars, ledvars,
                   reboot_delay, conns, resp, loaded_slots, histvars>>

\* one tick of the delay of the pending key_update_reboot_work runs out
reboot_delay_passes ==
    /\ reboot_scheduled
    /\ reboot_delay > 0
    /\ reboot_delay' = reboot_delay - 1
    /\ UNCHANGED <<pc, keyvars, settings_loading, sessvars, advvars, ledvars,
                   reboot_scheduled, conns, resp, loaded_slots, histvars>>

\* key_update_reboot_handler: sys_reboot(SYS_REBOOT_COLD), run by the system work
\* queue when the delay has run out
key_update_reboot_handler ==
    /\ reboot_scheduled
    /\ reboot_delay = 0
    /\ LET b == cold_boot(nvs)
       IN /\ pc' = b.pc
          /\ nvs' = b.nvs
          /\ runtime_apple_key' = b.runtime_apple_key
          /\ runtime_google_key' = b.runtime_google_key
          /\ keys_loaded' = b.keys_loaded
          /\ settings_loading' = b.settings_loading
          /\ keys_provisioned' = b.keys_provisioned
          /\ current_protocol' = b.current_protocol
          /\ provisioning_allowed' = b.provisioning_allowed
          /\ provision_key_buf' = b.provision_key_buf
          /\ provision_key_chunks' = b.provision_key_chunks
          /\ apple_findmy_payload' = b.apple_findmy_payload
          /\ google_fmdn_payload' = b.google_fmdn_payload
          /\ blink_state' = b.blink_state
          /\ led' = b.led
          /\ led_timer_started' = b.led_timer_started
          /\ reboot_scheduled' = b.reboot_scheduled
          /\ ctlr_addr' = b.ctlr_addr
          /\ adv' = b.adv
          /\ conns' = b.conns
          /\ resp' = b.resp
          /\ loaded_slots' = b.loaded_slots
          /\ hp' = b.hp
          /\ accepted' = b.accepted
          /\ reboot_delay' = b.reboot_delay
          /\ calls' = b.calls
          /\ calls_ctx' = b.calls_ctx
          /\ authed' = b.authed
          /\ key_saved' = b.key_saved

\* ------------------------------------------------------------ timers

\* next_protocol with the flip to Apple left out
next_protocol_no_return(protocol) ==
    PROTOCOL_GOOGLE_FMDN

\* protocol_switcher: the flip of current_protocol
next_protocol(protocol) ==
    IF protocol = PROTOCOL_APPLE_FINDMY
    THEN PROTOCOL_GOOGLE_FMDN ELSE PROTOCOL_APPLE_FINDMY

\* protocol_switcher_result with the flip taken back when the restart fails
protocol_switcher_result_reverts(provisioned, protocol, akey, gkey, addr, apl, gpl, adv_ok) ==
    LET np == IF protocol = PROTOCOL_APPLE_FINDMY
              THEN PROTOCOL_GOOGLE_FMDN ELSE PROTOCOL_APPLE_FINDMY
        r  == start_advertising(provisioned, np, akey, gkey, apl, gpl, adv_ok)
    IN [current_protocol |-> IF adv_ok THEN np ELSE protocol,
        ctlr_addr |-> set_mac_address(addr, provisioned, np, akey, gkey),
        apple_findmy_payload |-> r.apple_findmy_payload,
        google_fmdn_payload |-> r.google_fmdn_payload,
        adv |-> r.adv,
        calls |-> set_mac_address_calls(provisioned)
                  \o start_advertising_calls(provisioned, np)]

\* protocol_switcher as a function of what it reads: flip, set_mac_address(),
\* start_advertising(), with the calls in the order the code makes them
protocol_switcher_result(provisioned, protocol, akey, gkey, addr, apl, gpl, adv_ok) ==
    LET np == next_protocol(protocol)
        r  == start_advertising(provisioned, np, akey, gkey, apl, gpl, adv_ok)
    IN [current_protocol |-> np,
        ctlr_addr |-> set_mac_address(addr, provisioned, np, akey, gkey),
        apple_findmy_payload |-> r.apple_findmy_payload,
        google_fmdn_payload |-> r.google_fmdn_payload,
        adv |-> r.adv,
        calls |-> set_mac_address_calls(provisioned)
                  \o start_advertising_calls(provisioned, np)]

\* K_TIMER_DEFINE(protocol_timer, protocol_switcher, NULL): protocol_switcher is
\* the expiry function of the timer and makes its calls itself, in the context
\* the kernel runs expiry functions in
protocol_switcher_context ==
    CTX_TIMER_ISR

\* protocol_switcher(timer), the expiry function of protocol_timer
protocol_switcher(adv_ok) ==
    /\ pc = "running"
    /\ LET r == protocol_switcher_result(keys_provisioned, current_protocol,
                                         runtime_apple_key, runtime_google_key,
                                         ctlr_addr, apple_findmy_payload,
                                         google_fmdn_payload, adv_ok)
       IN /\ current_protocol' = r.current_protocol
          /\ ctlr_addr' = r.ctlr_addr
          /\ apple_findmy_payload' = r.apple_findmy_payload
          /\ google_fmdn_payload' = r.google_fmdn_payload
          /\ adv' = r.adv
          /\ calls' = r.calls
          /\ calls_ctx' = protocol_switcher_context
    /\ UNCHANGED <<pc, keyvars, settings_loading, sessvars, ledvars, rebootvars,
                   conns, resp, loaded_slots, histvars>>

\* led_level with the single-blink pattern for either protocol
led_level_single_blink(protocol, phase) ==
    IF phase = 0 THEN 1 ELSE 0

\* the level led_blink_handler writes to the pin in phase blink_state
led_level(protocol, phase) ==
    IF protocol = PROTOCOL_APPLE_FINDMY
    THEN (IF phase = 0 THEN 1 ELSE 0)
    ELSE (IF phase = 0 \/ phase = 2 THEN 1 ELSE 0)

\* led_blink_handler(timer), every 200 ms once led_blink_timer is started
led_blink_handler ==
    /\ led_timer_started
    /\ led' = led_level(current_protocol, blink_state)
    /\ blink_state' = (blink_state + 1) % BLINK_PHASES
    /\ UNCHANGED <<pc, keyvars, settings_loading, sessvars, advvars, led_timer_started,
                   rebootvars, conns, resp, loaded_slots, histvars>>

\* ------------------------------------------------------------ specifications

\* main and bt_ready
Boot ==
    \/ \E led_ready \in BOOLEAN : main_init(led_ready)
    \/ load_keys_begin
    \/ \E name \in {"apple", "google"}, read_ok \in BOOLEAN :
           settings_load_entry(name, read_ok)
    \/ \E err \in BOOLEAN : load_keys_end(err)
    \/ main_set_mac_address
    \/ \E err \in BOOLEAN : main_bt_enable(err)
    \/ \E err \in BOOLEAN, adv_ok \in BOOLEAN : bt_ready(err, adv_ok)

\* the connection callbacks and the two provisioning characteristics
Provisioning(centrals, auths, chunks) ==
    \/ \E conn \in centrals, err \in BOOLEAN : bt_connected(conn, err)
    \/ \E conn \in centrals : bt_disconnected(conn)
    \/ \E conn \in centrals, buf \in auths : write_provision_auth(conn, buf)
    \/ \E conn \in centrals, buf \in chunks, save_ok \in BOOLEAN :
           write_provision_key(conn, buf, save_ok)

\* the delayed work item: its delay, then its handler
RebootWork ==
    \/ reboot_delay_passes
    \/ key_update_reboot_handler

\* run-time writes of a management client to the keys subtree
Management ==
    \E name \in SettingsNames, read_ok \in BOOLEAN, save_ok \in BOOLEAN :
        \E val \in SettingsValues(name) :
            settings_runtime_set(name, val, read_ok, save_ok)

\* The firmware as built, driven by provisioning clients: protocol_timer is never
\* started (its k_timer_start in bt_ready is commented out), so protocol_switcher
\* does not run.
Next ==
    \/ Boot
    \/ Provisioning(Conns, AuthWriteBufs, KeyWriteBufs)
    \/ RebootWork

Spec == Init /\ [][Next]_vars

\* run-time writes of a value that is too long for its slot
ManagementOversized ==
    \E name \in {"apple", "google"}, read_ok \in BOOLEAN, save_ok \in BOOLEAN :
        settings_runtime_set(name, OversizedValue(name), read_ok, save_ok)

\* The firmware driven by a management client only.
NextSettings ==
    \/ Boot
    \/ Management
    \/ ManagementOversized
    \/ RebootWork

SpecSettings == Init /\ [][NextSettings]_vars

\* The firmware driven by a management client and by one provisioning client that
\* writes the token and well-sized chunks.
NextCommit ==
    \/ Boot
    \/ Provisioning({1}, {provision_auth_code}, {ChunkZero, ChunkCount})
    \/ Management
    \/ RebootWork

SpecCommit == InitSwitch /\ [][NextCommit]_vars

\* The firmware with protocol_timer running: the switcher callback is applied in
\* every state one client that writes the token and well-sized chunks can bring
\* the running device to.
NextSwitch ==
    \/ Boot
    \/ Provisioning({1}, {provision_auth_code}, {ChunkZero, ChunkCount})
    \/ RebootWork
    \/ \E adv_ok \in BOOLEAN : protocol_switcher(adv_ok)

SpecSwitch == InitSwitch /\ [][NextSwitch]_vars

\* The firmware with protocol_timer running, no client connected, booted from a
\* partition holding any of the key pairs of InitKeys.
NextDerive ==
    \/ Boot
    \/ \E adv_ok \in BOOLEAN : protocol_switcher(adv_ok)

SpecDerive == InitKeys /\ [][NextDerive]_vars

\* The firmware with protocol_timer running, no client connected, booted from
\* every partition of Init: each slot absent, well-formed or malformed.
SpecLoaded == Init /\ [][NextDerive]_vars

\* a factory-fresh partition
InitFresh ==
    PowerOn({[apple |-> <<>>, google |-> <<>>]})

\* The firmware as built with several centrals connected at once, each writing
\* the token and well-sized chunks.
NextShared ==
    \/ Boot
    \/ Provisioning(Centrals, {provision_auth_code}, {ChunkCount})
    \/ RebootWork

SpecShared == InitFresh /\ [][NextShared]_vars

\* The firmware as built, fresh from the factory, with one client that writes the
\* token and well-sized chunks; time passes and the work queue runs its items.
NextReboot ==
    \/ Boot
    \/ Provisioning({1}, {provision_auth_code}, {ChunkCount})
    \/ RebootWork

SpecRebootFair ==
    /\ InitFresh
    /\ [][NextReboot]_vars
    /\ WF_vars(reboot_delay_passes)
    /\ WF_vars(key_update_reboot_handler)

\* NextLed with the k_timer_start of protocol_timer in bt_ready not commented out
NextLedSwitching ==
    \/ Boot
    \/ led_blink_handler
    \/ \E adv_ok \in BOOLEAN : protocol_switcher(adv_ok)

\* The firmware as built with no client connected: of the two timers bt_ready
\* starts led_blink_timer only.
NextLed ==
    \/ Boot
    \/ led_blink_handler

SpecLed == Init /\ [][NextLed]_vars

\* main runs on and an armed timer keeps expiring
SpecLedFair == SpecLed /\ WF_vars(NextLed)

\* The firmware with both timers running and no client connected.
NextBlink ==
    \/ Boot
    \/ led_blink_handler
    \/ \E adv_ok \in BOOLEAN : protocol_switcher(adv_ok)

SpecBlink == InitSwitch /\ [][NextBlink]_vars

\* ------------------------------------------------------------ provisioning claims

KeyErr == [op |-> "key", rc |-> "ERR_INVALID_ATTRIBUTE_LEN"]
KeyOk == [op |-> "key", rc |-> "len"]
SaveErr == [op |-> "key", rc |-> "ERR_UNLIKELY"]

\* C1: when the two provisioning writes before this one were the exact token and
\* then a 14-byte chunk b1, a 14-byte key write b2 whose storage write succeeds is
\* answered with success and leaves runtime_apple_key and keys/apple equal to
\* b1 followed by b2.
C1_HappyPathCommitsConcatenation ==
    [][\A conn \in Conns, buf \in KeyWriteBufs :
          (/\ write_provision_key(conn, buf, TRUE)
           /\ Len(hp) = 2
           /\ Len(buf) = CHUNK_SIZE)
          => (/\ resp' = KeyOk
              /\ runtime_apple_key' = hp[2] \o buf
              /\ nvs'.apple = <<hp[2] \o buf>>)]_vars

\* the written scenario: token, 14 zero bytes, 0x01..0x0E, committed and stored
C1_Witness ==
    /\ resp = KeyOk
    /\ reboot_scheduled
    /\ keys_provisioned
    /\ runtime_apple_key = ChunkZero \o ChunkCount
    /\ nvs.apple = <<ChunkZero \o ChunkCount>>

\* C2: a key write that arrives unauthenticated, or with a length other than 14,
\* or as a third chunk, is answered with an error, changes neither the runtime
\* keys nor the stored keys nor keys_provisioned, and schedules no reboot.
C2_RejectedChunkKeepsKeys ==
    [][\A conn \in Conns, buf \in KeyWriteBufs, save_ok \in BOOLEAN :
          (/\ write_provision_key(conn, buf, save_ok)
           /\ \/ ~provisioning_allowed
              \/ Len(buf) # CHUNK_SIZE
              \/ provision_key_chunks >= CHUNKS_PER_KEY)
          => (/\ resp' = KeyErr
              /\ UNCHANGED <<runtime_apple_key, runtime_google_key, nvs,
                             keys_provisioned, reboot_scheduled>>)]_vars

\* a third chunk was refused: two chunks are staged and the session is still open
C2_Witness ==
    /\ resp = KeyErr
    /\ provisioning_allowed
    /\ provision_key_chunks = CHUNKS_PER_KEY
    /\ ~reboot_scheduled

\* C3: after an auth write whose token has the wrong length or the wrong value,
\* the session is unauthenticated, whatever it was before the write.
C3_BadAuthUnauthenticates ==
    [][\A conn \in Conns, buf \in AuthWriteBufs :
          (write_provision_auth(conn, buf) /\ buf # provision_auth_code)
          => ~provisioning_allowed']_vars

\* C4: every rejected key write leaves the session unauthenticated with zero
\* chunks received.
C4_RejectedChunkResetsSession ==
    [][\A conn \in Conns, buf \in KeyWriteBufs, save_ok \in BOOLEAN :
          (/\ write_provision_key(conn, buf, save_ok)
           /\ \/ ~provisioning_allowed
              \/ Len(buf) # CHUNK_SIZE
              \/ provision_key_chunks >= CHUNKS_PER_KEY)
          => (~provisioning_allowed' /\ provision_key_chunks' = 0)]_vars

\* C5: a disconnect leaves the session unauthenticated with zero chunks and changes
\* neither the runtime keys, the stored keys nor keys_provisioned; and the key a
\* later write commits is made of the two chunks staged since the last disconnect,
\* in write order.
C5_DisconnectDiscardsStagedChunks ==
    [][/\ \A conn \in Conns :
             bt_disconnected(conn)
             => (/\ ~provisioning_allowed'
                 /\ provision_key_chunks' = 0
                 /\ UNCHANGED <<runtime_apple_key, runtime_google_key, nvs,
                                keys_provisioned>>)
       /\ (runtime_apple_key' # runtime_apple_key /\ pc = "running" /\ pc' = "running")
             => (/\ Len(accepted') = CHUNKS_PER_KEY
                 /\ runtime_apple_key' = accepted'[1] \o accepted'[2])]_vars

\* every central has gone while a first chunk was staged and no key was committed
C5_Witness ==
    /\ pc = "running"
    /\ conns = {}
    /\ ~provisioning_allowed
    /\ provision_key_chunks = 0
    /\ SubSeq(provision_key_buf, 1, CHUNK_SIZE) = ChunkCount
    /\ ~reboot_scheduled
    /\ ~keys_provisioned

\* C6: when the storage write of a completed key fails, the write is answered with
\* an error, keys_provisioned is not changed by it and no reboot is scheduled (the
\* provisioning characteristic and the settings handler alike); and on the running
\* device keys_provisioned and the reboot work are only ever set by a write whose
\* storage write succeeded and stored the runtime key.
C6_FailedSaveNeitherMarksNorReboots ==
    [][/\ \A conn \in Conns, buf \in KeyWriteBufs :
             (/\ provisioning_allowed
              /\ Len(buf) = CHUNK_SIZE
              /\ provision_key_chunks = CHUNKS_PER_KEY - 1
              /\ write_provision_key(conn, buf, FALSE))
             => (/\ resp' = SaveErr
                 /\ UNCHANGED <<keys_provisioned, reboot_scheduled, nvs>>)
       /\ \A name \in {"apple", "google"} :
             \A val \in SettingsValues(name) :
                (/\ Len(val) = (IF name = "apple" THEN APPLE_KEY_SIZE ELSE GOOGLE_KEY_SIZE)
                 /\ settings_runtime_set(name, val, TRUE, FALSE))
                => (/\ resp' = [op |-> "settings", rc |-> "save_rc"]
                    /\ UNCHANGED <<keys_provisioned, reboot_scheduled, nvs>>)
       /\ (/\ pc = "running"
           /\ pc' = "running"
           /\ \/ ~keys_provisioned /\ keys_provisioned'
              \/ ~reboot_scheduled /\ reboot_scheduled')
             => \/ \E conn \in Conns, buf \in KeyWriteBufs :
                      /\ write_provision_key(conn, buf, TRUE)
                      /\ nvs'.apple = <<runtime_apple_key'>>
                \/ \E name \in {"apple", "google"} :
                      \E val \in SettingsValues(name) :
                         /\ settings_runtime_set(name, val, TRUE, TRUE)
                         /\ nvs'[name] = <<val>>]_vars

\* the save of a completed key failed on a device that was not provisioned
C6_Witness ==
    /\ resp = SaveErr
    /\ provision_key_chunks = CHUNKS_PER_KEY
    /\ runtime_apple_key = ChunkZero \o ChunkCount
    /\ nvs.apple = <<>>
    /\ ~keys_provisioned
    /\ ~reboot_scheduled

\* C7: while the reboot of a commit is pending, no step (the commit, a later write,
\* a protocol-switch tick) changes the advertising set or the address handed to
\* the controller.
C7_CommitNotLive ==
    [][reboot_scheduled' => (adv' = adv /\ ctlr_addr' = ctlr_addr)]_vars

\* ------------------------------------------------------------ key loading claims

Slots == {"apple", "google"}
SlotSize(name) == IF name = "apple" THEN APPLE_KEY_SIZE ELSE GOOGLE_KEY_SIZE
WellFormed(store, name) == store[name] # <<>> /\ Len(store[name][1]) = SlotSize(name)
Blank(store) == store.apple = <<>> /\ store.google = <<>>
DefaultsLoaded ==
    runtime_apple_key = apple_keys_0 /\ runtime_google_key = google_key

\* C8: after a load that reports no error and in which the handler accepted every
\* well-formed entry, each runtime key is the stored value when its entry is
\* well-formed and the compiled default of its slot otherwise.
C8_PerSlotFallback ==
    [][(/\ loaded_slots = {n \in Slots : WellFormed(nvs, n)}
        /\ load_keys_end(FALSE))
       => (/\ runtime_apple_key' = (IF WellFormed(nvs, "apple")
                                    THEN nvs.apple[1] ELSE apple_keys_0)
           /\ runtime_google_key' = (IF WellFormed(nvs, "google")
                                     THEN nvs.google[1] ELSE google_key))]_vars

\* C9 as written: load_keys ends with both defaults and keys_provisioned false when
\* nothing is stored, and also whenever settings_load reports a failure.
C9_FailedLoadGivesDefaults ==
    [][\A err \in BOOLEAN :
          (/\ Blank(nvs) \/ err
           /\ load_keys_end(err))
          => (DefaultsLoaded' /\ ~keys_provisioned')]_vars

\* C9, amended: load_keys ends with both defaults and keys_provisioned false when
\* the handler accepted no entry during settings_load (nothing stored, or no
\* stored entry could be read), whatever settings_load returned.
C9_NothingLoadedGivesDefaults ==
    [][\A err \in BOOLEAN :
          (/\ loaded_slots = {}
           /\ load_keys_end(err))
          => (DefaultsLoaded' /\ ~keys_provisioned')]_vars

\* load_keys has returned on a device with an empty keys subtree
C9_Witness ==
    /\ pc = "set_mac_address"
    /\ Blank(nvs)
    /\ keys_loaded
    /\ DefaultsLoaded
    /\ ~keys_provisioned

C11_TwoSwitchesRestoreFrame ==
    [][\A ok \in BOOLEAN :
          (adv # NoAdv /\ protocol_switcher(ok))
          => LET r == protocol_switcher_result(keys_provisioned', current_protocol',
                                               runtime_apple_key', runtime_google_key',
                                               ctlr_addr', apple_findmy_payload',
                                               google_fmdn_payload', TRUE)
             IN /\ r.current_protocol = current_protocol
                /\ r.adv = adv
                /\ r.ctlr_addr = ctlr_addr]_vars

\* the switcher has brought a provisioned device to Google and back to Apple
C11_Witness ==
    /\ pc = "running"
    /\ keys_provisioned
    /\ current_protocol = PROTOCOL_APPLE_FINDMY
    /\ adv = [kind |-> "apple", data |-> apple_findmy_payload]
    /\ google_fmdn_payload # Zeros(GOOGLE_FMDN_PAYLOAD_SIZE)
    /\ Len(calls) = 4

\* C12: each protocol-switch transition on a provisioned device makes its calls in
\* the order stop advertising, address setter, frame builder of the new protocol,
\* start advertising.
C12_StopBeforeAddress ==
    [][\A ok \in BOOLEAN :
          (keys_provisioned /\ protocol_switcher(ok))
          => calls' = <<"bt_le_adv_stop", "bt_ctlr_set_public_addr",
                        IF current_protocol' = PROTOCOL_APPLE_FINDMY
                        THEN "prepare_apple_findmy_adv" ELSE "prepare_google_fmdn_adv",
                        "bt_le_adv_start">>]_vars

\* ------------------------------------------------------------ byte-level claims

RECURSIVE BitAnd(_, _)
BitAnd(x, y) ==
    IF x = 0 \/ y = 0 THEN 0
    ELSE (x % 2) * (y % 2) + 2 * BitAnd(x \div 2, y \div 2)

RECURSIVE BitOr(_, _)
BitOr(x, y) ==
    IF x = 0 THEN y
    ELSE IF y = 0 THEN x
    ELSE (IF x % 2 = 1 \/ y % 2 = 1 THEN 1 ELSE 0) + 2 * BitOr(x \div 2, y \div 2)

\* C14: the address handed to the controller is the first six bytes of the key of
\* the current protocol in reversed order, with addr[5] = key[0] | 0xC0 for Apple
\* and key[0] & 0x3F for Google, so addr[5] & 0xC0 is 0xC0 for Apple, 0 for Google.
C14_AddressIsReversedKeyPrefix ==
    ctlr_addr # <<>>
    => LET addr  == ctlr_addr[1]
           apple == current_protocol = PROTOCOL_APPLE_FINDMY
           key   == IF apple THEN runtime_apple_key ELSE runtime_google_key
       IN /\ Len(addr) = 6
          /\ \A i \in 1..5 : addr[i] = key[7 - i]
          /\ addr[6] = (IF apple THEN BitOr(key[1], 192) ELSE BitAnd(key[1], 63))
          /\ BitAnd(addr[6], 192) = (IF apple THEN 192 ELSE 0)

\* a Google address was derived from a key whose first byte has both high bits set
C14_Witness ==
    /\ ctlr_addr # <<>>
    /\ current_protocol = PROTOCOL_GOOGLE_FMDN
    /\ runtime_google_key[1] = 255
    /\ ctlr_addr[1][6] = 63
    /\ ctlr_addr[1][1] = runtime_google_key[6]

\* buffers the Apple frame may be built over
PriorApplePayloads ==
    { Zeros(APPLE_FINDMY_PAYLOAD_SIZE),
      [i \in 1..APPLE_FINDMY_PAYLOAD_SIZE |-> 255],
      apple_findmy_payload }

\* C15: the Apple frame advertised has 29 bytes: 4C 00 12 19, 00, key[6..27],
\* (key[0] >> 6) & 3, 00; and building it over any earlier buffer content gives
\* the same bytes.
C15_AppleFrameLayout ==
    adv.kind = "apple"
    => LET f == adv.data
           key == runtime_apple_key
       IN /\ Len(f) = 29
          /\ SubSeq(f, 1, 4) = <<76, 0, 18, 25>>
          /\ f[5] = 0
          /\ \A i \in 6..27 : f[i] = key[i + 1]
          /\ f[28] = BitAnd(key[1] \div 64, 3)
          /\ f[29] = 0
          /\ \A prior \in PriorApplePayloads :
                prepare_apple_findmy_adv(prior, key) = f

\* an Apple frame is advertised for a key whose first byte has both high bits set
C15_Witness ==
    /\ adv.kind = "apple"
    /\ runtime_apple_key[1] >= 192
    /\ adv.data[28] = 3
    /\ adv.data[6] = runtime_apple_key[7]
    /\ adv.data[6] # runtime_apple_key[1]

\* buffers the Google frame may be built over
PriorGooglePayloads ==
    { Zeros(GOOGLE_FMDN_PAYLOAD_SIZE),
      [i \in 1..GOOGLE_FMDN_PAYLOAD_SIZE |-> 255],
      google_fmdn_payload }

\* C16: the Google frame advertised has 23 bytes: 2C FE 00, key[0..19]; and
\* building it over any earlier buffer content gives the same bytes.
C16_GoogleFrameLayout ==
    adv.kind = "google"
    => LET f == adv.data
           key == runtime_google_key
       IN /\ Len(f) = 23
          /\ SubSeq(f, 1, 3) = <<44, 254, 0>>
          /\ \A i \in 4..23 : f[i] = key[i - 3]
          /\ \A prior \in PriorGooglePayloads :
                prepare_google_fmdn_adv(prior, key) = f

\* a Google frame is advertised for a stored key
C16_Witness ==
    /\ adv.kind = "google"
    /\ runtime_google_key = GoogleKeyOf(0)
    /\ adv.data[4] = 255
    /\ adv.data[23] = runtime_google_key[20]

C17_SessionPerConnection ==
    [][/\ \A conn \in Centrals, save_ok \in BOOLEAN :
             (/\ write_provision_key(conn, ChunkCount, save_ok)
              /\ resp' # KeyErr)
             => conn \in authed
       /\ \A conn \in Centrals :
             (bt_disconnected(conn) /\ authed \ {conn} # {})
             => UNCHANGED <<provisioning_allowed, provision_key_chunks>>]_vars

\* C18 as written: while the reboot of a commit is pending, no step changes a
\* runtime key or a stored key.
C18_OneCommitPerBootCycle ==
    [][(reboot_scheduled /\ reboot_scheduled')
       => UNCHANGED <<runtime_apple_key, runtime_google_key, nvs>>]_vars

\* C18, amended: a successful commit leaves the session unauthenticated with zero
\* chunks; the session becomes authenticated only by a write of the token; and
\* while a reboot is pending the keys change only by a well-sized chunk write to
\* an authenticated session, so only after a new write of the token.
C18_NewCommitNeedsNewAuth ==
    [][/\ \A conn \in Conns, buf \in KeyWriteBufs :
             (/\ provisioning_allowed
              /\ Len(buf) = CHUNK_SIZE
              /\ provision_key_chunks = CHUNKS_PER_KEY - 1
              /\ write_provision_key(conn, buf, TRUE))
             => (/\ reboot_scheduled'
                 /\ ~provisioning_allowed'
                 /\ provision_key_chunks' = 0)
       /\ (~provisioning_allowed /\ provisioning_allowed')
             => \E conn \in Conns : write_provision_auth(conn, provision_auth_code)
       /\ (/\ reboot_scheduled
           /\ reboot_scheduled'
           /\ <<runtime_apple_key, runtime_google_key, nvs>>'
                 # <<runtime_apple_key, runtime_google_key, nvs>>)
             => /\ provisioning_allowed
                /\ provision_key_chunks = CHUNKS_PER_KEY - 1
                /\ \E conn \in Conns, buf \in KeyWriteBufs, save_ok \in BOOLEAN :
                      Len(buf) = CHUNK_SIZE /\ write_provision_key(conn, buf, save_ok)]_vars

\* with the reboot of a commit pending, a new token and two more chunks have
\* overwritten the runtime key (their save failed, so the stored key differs)
C18_Witness ==
    /\ pc = "running"
    /\ reboot_scheduled
    /\ key_saved
    /\ nvs.apple # <<>>
    /\ runtime_apple_key # nvs.apple[1]
    /\ resp = SaveErr

\* C19: key_update_reboot_handler, the only caller of sys_reboot, runs only in a
\* boot cycle in which settings_save_one has returned 0 for a key.
C19_RebootOnlyAfterSave ==
    [][key_update_reboot_handler => key_saved]_vars

\* the device has rebooted into a partition holding a key committed over GATT
C19_Witness ==
    /\ pc = "main"
    /\ ~key_saved
    /\ ~reboot_scheduled
    /\ nvs.apple = <<ChunkZero \o ChunkCount>>
    /\ runtime_apple_key = Zeros(APPLE_KEY_SIZE)

\* C20 as written: whenever a reboot is pending the reboot follows, whatever the
\* client writes meanwhile.
C20_CommitLeadsToReboot ==
    reboot_scheduled ~> (pc = "main" /\ ~reboot_scheduled)

\* C20, amended: whenever a reboot is pending the reboot follows, unless the delay
\* of the work is restarted again and again by later successful key writes.
C20_RebootUnlessRescheduledForever ==
    \/ reboot_scheduled ~> (pc = "main" /\ ~reboot_scheduled)
    \/ []<>(reboot_scheduled /\ reboot_delay = REBOOT_DELAY_TICKS)

\* the device has rebooted into the partition holding the key a client committed
C20_Witness ==
    /\ pc = "main"
    /\ ~reboot_scheduled
    /\ reboot_delay = 0
    /\ nvs.apple = <<ChunkCount \o ChunkCount>>
    /\ conns = {}

\* ------------------------------------------------------------ key integrity claims

\* the complete keys of a slot: the compiled default and the stored entry
CompleteAppleKeys ==
    {apple_keys_0} \cup {nvs.apple[1] : n \in {m \in {"apple"} : WellFormed(nvs, m)}}
CompleteGoogleKeys ==
    {google_key} \cup {nvs.google[1] : n \in {m \in {"google"} : WellFormed(nvs, m)}}

\* C21: the key bytes of every Apple or Google frame handed to the advertiser are
\* those of one complete key of the slot, the stored entry or the compiled
\* default, never of a zero-filled or mixed buffer.
C21_NoPartialKeyAdvertised ==
    /\ adv.kind = "apple"
          => \E k \in CompleteAppleKeys :
                /\ SubSeq(adv.data, 6, 27) = SubSeq(k, 7, APPLE_KEY_SIZE)
                /\ adv.data[28] = (k[1] \div 64) % 4
    /\ adv.kind = "google"
          => \E k \in CompleteGoogleKeys :
                SubSeq(adv.data, 4, GOOGLE_FMDN_PAYLOAD_SIZE) = k

\* ------------------------------------------------------------ settings claims

SettingsInvalid == [op |-> "settings", rc |-> "EINVAL"]

\* C22: a run-time write to keys/apple or keys/google whose length is not the size
\* of the slot is answered with an error, changes neither the runtime keys nor
\* the stored keys nor keys_provisioned, and schedules no reboot; the run-time
\* writes that change a key are those of exactly 28 (apple) or 20 (google) bytes.
C22_SettingsLengthExact ==
    [][/\ \A name \in Slots, read_ok \in BOOLEAN, save_ok \in BOOLEAN :
             \A val \in SettingsValues(name) \cup {OversizedValue(name)} :
                (/\ Len(val) # (IF name = "apple" THEN 28 ELSE 20)
                 /\ settings_runtime_set(name, val, read_ok, save_ok))
                => (/\ resp' = SettingsInvalid
                    /\ UNCHANGED <<runtime_apple_key, runtime_google_key, nvs,
                                   keys_provisioned, reboot_scheduled, reboot_delay>>)
       /\ (/\ pc = "running"
           /\ pc' = "running"
           /\ <<runtime_apple_key, runtime_google_key, nvs>>'
                 # <<runtime_apple_key, runtime_google_key, nvs>>)
             => \E name \in Slots, save_ok \in BOOLEAN :
                   \E val \in SettingsValues(name) :
                      /\ Len(val) = (IF name = "apple" THEN 28 ELSE 20)
                      /\ settings_runtime_set(name, val, TRUE, save_ok)]_vars

\* a run-time write was refused on a device that booted from an empty keys subtree
C22_Witness ==
    /\ pc = "running"
    /\ Blank(nvs)
    /\ resp = SettingsInvalid
    /\ DefaultsLoaded
    /\ ~keys_provisioned
    /\ ~reboot_scheduled

\* ------------------------------------------------------------ LED claims

\* C23: on each blink tick the LED is switched on iff the phase is 0 with Apple
\* current, or 0 or 2 with Google current, and the phase advances by one modulo 10;
\* the phase is always in 0..9, and a protocol switch changes neither the phase
\* nor the LED.
C23_LedFollowsProtocolAndPhase ==
    [][/\ blink_state \in 0..9
       /\ blink_state' \in 0..9
       /\ led_blink_handler
             => (/\ led' \in {0, 1}
                 /\ led' = 1 <=> \/ /\ current_protocol = PROTOCOL_APPLE_FINDMY
                                     /\ blink_state = 0
                                  \/ /\ current_protocol = PROTOCOL_GOOGLE_FMDN
                                     /\ blink_state \in {0, 2}
                 /\ blink_state' = (IF blink_state = 9 THEN 0 ELSE blink_state + 1))
       /\ \A ok \in BOOLEAN :
             protocol_switcher(ok) => UNCHANGED <<blink_state, led>>]_vars

\* the second blink of the Google pattern: the tick of phase 2 has lit the LED
C23_Witness ==
    /\ pc = "running"
    /\ current_protocol = PROTOCOL_GOOGLE_FMDN
    /\ blink_state = 3
    /\ led = 1

\* ------------------------------------------------------------ context claims

\* C24: the address setter and the advertising stop and start calls of a protocol
\* switch are never made in the context of the timer interrupt: the calls made
\* there are none.
C24_NoControllerCallsInTimerContext ==
    calls_ctx = CTX_TIMER_ISR => calls = <<>>

\* ------------------------------------------------------------ restart claims

\* C25: a protocol switch whose advertising start fails leaves the device running
\* with current_protocol flipped and nothing advertised; no step other than a
\* protocol switch starts advertising again on the running device; and the next
\* switch flips the protocol back and starts advertising when its start succeeds.
C25_FailedRestartWaitsForNextTick ==
    [][/\ protocol_switcher(FALSE)
             => (/\ pc' = "running"
                 /\ current_protocol' # current_protocol
                 /\ adv' = NoAdv
                 /\ calls'[Len(calls')] = "bt_le_adv_start"
                 /\ LET r == protocol_switcher_result(keys_provisioned', current_protocol',
                                                      runtime_apple_key', runtime_google_key',
                                                      ctlr_addr', apple_findmy_payload',
                                                      google_fmdn_payload', TRUE)
                    IN /\ r.current_protocol = current_protocol
                       /\ r.adv # NoAdv
                       /\ r.calls[Len(r.calls)] = "bt_le_adv_start")
       /\ (pc = "running" /\ pc' = "running" /\ adv = NoAdv /\ adv' # NoAdv)
             => \E ok \in BOOLEAN : protocol_switcher(ok)]_vars

\* the restart of a switch to Google has failed on a provisioned device
C25_Witness ==
    /\ pc = "running"
    /\ keys_provisioned
    /\ current_protocol = PROTOCOL_GOOGLE_FMDN
    /\ adv = NoAdv
    /\ Len(calls) = 4
    /\ ctlr_addr # <<>>

\* ------------------------------------------------------------ sequence claims

AuthOk == [op |-> "auth", rc |-> "len"]

\* C26: a write of the valid token leaves the session authenticated with zero
\* chunks, also when chunks were staged before it; and the key a write commits
\* is the one chunk accepted since the most recent valid token followed by the
\* chunk of that write.
C26_CommitUsesChunksSinceLastAuth ==
    [][/\ \A conn \in Conns :
             write_provision_auth(conn, provision_auth_code)
             => (/\ resp' = AuthOk
                 /\ provisioning_allowed'
                 /\ provision_key_chunks' = 0)
       /\ \A conn \in Conns, buf \in KeyWriteBufs, save_ok \in BOOLEAN :
             (/\ write_provision_key(conn, buf, save_ok)
              /\ runtime_apple_key' # runtime_apple_key \/ resp' = SaveErr
                                                       \/ reboot_scheduled' # reboot_scheduled)
             => (/\ Len(accepted) = 1
                 /\ Len(buf) = 14
                 /\ runtime_apple_key' = accepted[1] \o buf)]_vars

\* the valid token was written again while a first chunk was staged
C26_Witness ==
    /\ pc = "running"
    /\ resp = AuthOk
    /\ provisioning_allowed
    /\ provision_key_chunks = 0
    /\ SubSeq(provision_key_buf, 1, CHUNK_SIZE) = ChunkCount
    /\ accepted = <<>>
    /\ ~keys_provisioned
    /\ ~reboot_scheduled

\* ------------------------------------------------------------ termination claims

\* C27: every call of bt_ready returns, also on its error paths: once the
\* callback has been entered the device gets to the state bt_ready returns in.
C27_BtReadyReturns ==
    (pc = "bt_ready") ~> (pc = "running")

\* ------------------------------------------------------------ consistency claims

\* the protocol a tracker frame belongs to
FrameProtocol(kind) ==
    IF kind = "apple" THEN PROTOCOL_APPLE_FINDMY ELSE PROTOCOL_GOOGLE_FMDN

\* the address the setter is handed for key k of the given protocol
AddressOfKey(protocol, k) ==
    <<k[6], k[5], k[4], k[3], k[2],
      IF protocol = PROTOCOL_APPLE_FINDMY THEN BitOr(k[1], 192) ELSE BitAnd(k[1], 63)>>

ProvisioningAdv == [kind |-> "provisioning", data |-> <<>>]

\* C29: while keys_provisioned is false, an advertising start that succeeds puts
\* the provisioning advertisement on air, no step builds an Apple or a Google
\* frame or changes the advertising set to anything else, and no step hands an
\* address to the setter.
C29_UnprovisionedAdvertisesProvisioningOnly ==
    [][~keys_provisioned
       => /\ bt_ready(FALSE, TRUE) => adv' = ProvisioningAdv
          /\ protocol_switcher(TRUE) => adv' = ProvisioningAdv
          /\ adv' # adv => adv' \in {NoAdv, ProvisioningAdv}
          /\ UNCHANGED <<apple_findmy_payload, google_fmdn_payload, ctlr_addr>>
          /\ calls' # calls
                => \A i \in 1..Len(calls') :
                      calls'[i] \in {"bt_le_adv_stop", "bt_le_adv_start"}]_vars

\* the switcher has run on a device that holds the compiled defaults only
C29_Witness ==
    /\ pc = "running"
    /\ ~keys_provisioned
    /\ DefaultsLoaded
    /\ current_protocol = PROTOCOL_GOOGLE_FMDN
    /\ adv = ProvisioningAdv
    /\ ctlr_addr = <<>>
    /\ google_fmdn_payload = Zeros(GOOGLE_FMDN_PAYLOAD_SIZE)

\* ------------------------------------------------------------ failed commit claims

\* C30: when the storage write of the second chunk fails, runtime_apple_key is
\* the same after the write as before it, and so is the Apple frame a rebuild
\* would give.
C30_FailedCommitKeepsRuntimeKey ==
    [][\A conn \in Conns, buf \in KeyWriteBufs :
          (/\ provisioning_allowed
           /\ Len(buf) = CHUNK_SIZE
           /\ provision_key_chunks = CHUNKS_PER_KEY - 1
           /\ write_provision_key(conn, buf, FALSE))
          => (/\ runtime_apple_key' = runtime_apple_key
              /\ prepare_apple_findmy_adv(apple_findmy_payload', runtime_apple_key')
                    = prepare_apple_findmy_adv(apple_findmy_payload, runtime_apple_key))]_vars

\* ------------------------------------------------------------ counter claims

\* C31: the chunk counter is 0, 1 or 2 and is nonzero only while the session is
\* authenticated; a key write that is not rejected copies its 14 bytes to offset
\* 0 or 14 of the 28-byte staging buffer and leaves the other half alone; and
\* the counter gets the value 2 only by a commit whose storage write failed.
C31_ChunkCounterBounded ==
    [][/\ provision_key_chunks' \in {0, 1, 2}
       /\ provision_key_chunks' # 0 => provisioning_allowed'
       /\ Len(provision_key_buf') = 28
       /\ \A conn \in Conns, buf \in KeyWriteBufs, save_ok \in BOOLEAN :
             (write_provision_key(conn, buf, save_ok) /\ resp' # KeyErr)
             => \E off \in {0, 14} :
                   /\ off = 14 * provision_key_chunks
                   /\ \A i \in 1..28 :
                         provision_key_buf'[i]
                           = (IF i \in (off + 1)..(off + 14)
                              THEN buf[i - off] ELSE provision_key_buf[i])
       /\ (provision_key_chunks' = 2 /\ provision_key_chunks # 2)
             => (/\ \E conn \in Conns, buf \in KeyWriteBufs :
                       write_provision_key(conn, buf, FALSE)
                 /\ resp' = SaveErr
                 /\ UNCHANGED nvs)]_vars

\* two chunks are staged in an open session after a commit whose save failed
C31_Witness ==
    /\ pc = "running"
    /\ provision_key_chunks = 2
    /\ provisioning_allowed
    /\ resp = SaveErr
    /\ provision_key_buf = ChunkCount \o ChunkZero

====
